---- MODULE Spec2Model ----
(***************************************************************************)
(* LEMARL interface functions: the prior dispatch policy                   *)
(* generate_prior_policy (Prior_Policy_Function.py) and the binary         *)
(* reward evaluator compute_reward (Reward_Funcion.py).                    *)
(*                                                                         *)
(* Arithmetic.  The Python code computes in binary floating point; the     *)
(* model computes in exact fixed point.  Every power (electrical or        *)
(* thermal, MW) is an integer number of 1/19000 MW, so that 1 MW = MW      *)
(* units.  The factor 19 makes the boiler conversion H / 0.95 = 20*H/19    *)
(* exact and the factor 1000 makes the CHP coefficients 0.8, 0.6 and the   *)
(* midpoint division exact for every load that is a multiple of 0.1 MW.    *)
(* A TCL set point is kept as the numerator of H = n / (10^4 * beta) of    *)
(* its unit, and an absolute threshold of the evaluator in the fixed       *)
(* point of its own quantity (see each constant).                          *)
(***************************************************************************)
EXTENDS Integers, Sequences, FiniteSets, TLC

VARIABLES observation, action, calls, state, result

vars == <<observation, action, calls, state, result>>

(***************************************************************************)
(* Generic helpers (Python / numpy built-ins).                             *)
(***************************************************************************)
MW == 19 * 1000
\* 0.1 MW
D == MW \div 10

Min(a, b) == IF a <= b THEN a ELSE b
Max(a, b) == IF a >= b THEN a ELSE b
Abs(a) == IF a >= 0 THEN a ELSE 0 - a
\* np.clip(x, lo, hi) = minimum(maximum(x, lo), hi)
Clip(x, lo, hi) == Min(Max(x, lo), hi)

RECURSIVE SumSeq(_)
\* np.sum over an array
SumSeq(s) == IF s = <<>> THEN 0 ELSE Head(s) + SumSeq(Tail(s))

RECURSIVE SumOver(_, _)
\* sum(d.values()) over a dict d given as a function; S is its key set
SumOver(f, S) ==
    IF S = {} THEN 0
    ELSE LET k == CHOOSE x \in S : TRUE IN f[k] + SumOver(f, S \ {k})

\* dict.get(key, default)
Get(d, k, default) == IF k \in DOMAIN d THEN d[k] ELSE default

\* abs(a - b) / max(b, 1e-6) > pct/100.  1e-6 MW is below one unit of the
\* fixed point, so for b < 1 unit the denominator is 1e-6 and the ratio
\* exceeds the tolerance exactly when a # b.
RelErrExceeds(a, b, pct) ==
    IF b >= 1 THEN 100 * Abs(a - b) > pct * b ELSE a # b

\* abs(a - b) / max(b, 1e-6) < pct/100
RelErrBelow(a, b, pct) ==
    IF b >= 1 THEN 100 * Abs(a - b) < pct * b ELSE a = b

(***************************************************************************)
(* Unit parameter tables of generate_prior_policy.                         *)
(* c_m, c_v are in tenths (0.8 -> 8), eta in percent, GCI in hundredths,   *)
(* the TCL coefficients alpha, beta, gamma in 1/10^4, temperatures in      *)
(* degrees Celsius.                                                        *)
(***************************************************************************)
CHP_PARAMS ==
    [CHP_1 |-> [P_min |-> 10 * D, P_max |-> 55 * D,
                H_min |-> 0, H_max |-> 45 * D,
                R_ramp |-> 5 * D,
                c_m |-> 8, c_k |-> 5 * D, c_v |-> 6,
                GCI |-> 95]]

DG_PARAMS ==
    [DG_1 |-> [P_min |-> 0, P_max |-> 45 * D, R_ramp |-> 4 * D, GCI |-> 70],
     DG_2 |-> [P_min |-> 0, P_max |-> 40 * D, R_ramp |-> (35 * D) \div 10,
               GCI |-> 53]]

EB_PARAMS ==
    [EB_1 |-> [P_min |-> 0, P_max |-> 30 * D, H_max |-> 25 * D, eta |-> 95]]

REN_PARAMS ==
    [WT_1 |-> [P_max |-> 25 * D], WT_2 |-> [P_max |-> 30 * D],
     PV_1 |-> [P_max |-> 25 * D], PV_2 |-> [P_max |-> 20 * D]]

TCL_PARAMS ==
    [TCL_1 |-> [alpha |-> 9884, beta |-> 9259, gamma |-> 116,
                H_min |-> 0, H_max |-> 25, T_min |-> 20, T_max |-> 24],
     TCL_2 |-> [alpha |-> 9884, beta |-> 9259, gamma |-> 116,
                H_min |-> 0, H_max |-> 25, T_min |-> 20, T_max |-> 24],
     TCL_3 |-> [alpha |-> 9900, beta |-> 8333, gamma |-> 100,
                H_min |-> 0, H_max |-> 30, T_min |-> 20, T_max |-> 24],
     TCL_4 |-> [alpha |-> 9900, beta |-> 8333, gamma |-> 100,
                H_min |-> 0, H_max |-> 30, T_min |-> 20, T_max |-> 24],
     TCL_5 |-> [alpha |-> 9900, beta |-> 8333, gamma |-> 100,
                H_min |-> 0, H_max |-> 30, T_min |-> 20, T_max |-> 24],
     TCL_6 |-> [alpha |-> 9913, beta |-> 7576, gamma |-> 87,
                H_min |-> 0, H_max |-> 35, T_min |-> 20, T_max |-> 24],
     TCL_7 |-> [alpha |-> 9913, beta |-> 7576, gamma |-> 87,
                H_min |-> 0, H_max |-> 35, T_min |-> 20, T_max |-> 24]]

\* 0.15 * (5.5 + 4.5 + 4.0 + 2.5 + 3.0 + 2.5 + 2.0) = 3.6 MW
GRID_PARAMS ==
    [P_max |-> (15 * (55 + 45 + 40 + 25 + 30 + 25 + 20) * D) \div 100]

\* 0.20, in percent
DR_ADJUSTABLE_RATIO == 20

RenUnits == <<"WT_1", "WT_2", "PV_1", "PV_2">>
TCLUnits == <<"TCL_1", "TCL_2", "TCL_3", "TCL_4", "TCL_5", "TCL_6", "TCL_7">>
\* f'TCL_{i}' for i in range(1, 8), f'DR_node_{i}' for i in range(33)
FallbackDRNodes == 0 .. 32

SeqRange(s) == {s[i] : i \in 1 .. Len(s)}

\* {} : the empty dict (also Python's None where only truthiness is tested)
EmptyDict == [k \in {} |-> 0]

(***************************************************************************)
(* generate_prior_policy, stage by stage.  Each stage that can raise       *)
(* returns ok = FALSE together with what it had already stored in the      *)
(* action dict when the exception left the try block.                      *)
(***************************************************************************)

\* Lines 31-35: the subscripted keys raise KeyError when absent.
ExtractOK(obs) ==
    {"P_load", "H_load", "P_ren_forecast", "unit_info"} \subseteq DOMAIN obs

\* observation.get('previous_action', None)
PrevAction(obs) == Get(obs, "previous_action", EmptyDict)

\* prev_action and unit_id in prev_action.get(cat, {})
HasPrev(prev_action, cat, unit_id) ==
    /\ DOMAIN prev_action # {}
    /\ cat \in DOMAIN prev_action
    /\ unit_id \in DOMAIN prev_action[cat]

\* forecast_idx, 1-based
ForecastIdx(unit_id) == CHOOSE i \in 1 .. Len(RenUnits) : RenUnits[i] = unit_id

\* Maximize renewable utilization: forecast capped to [0, P_max]; indexing
\* the forecast array past its end raises IndexError.
RenewableStage(obs) ==
    LET fc == obs.P_ren_forecast
        done == {RenUnits[i] : i \in 1 .. Min(Len(fc), Len(RenUnits))}
        out == [u \in done |->
                   Clip(fc[ForecastIdx(u)], 0, REN_PARAMS[u].P_max)]
    IN [ok |-> Len(fc) >= Len(RenUnits),
        Renewable |-> out,
        P_ren_total |-> SumOver(out, done)]

\* DG_PARAMS.items() taken in registration order, the sort left out
dg_units_unsorted == <<"DG_1", "DG_2">>

\* sorted(DG_PARAMS.items(), key=GCI): ascending carbon intensity, ties in
\* registration order (DG_1 before DG_2)
dg_units_sorted ==
    LET ids == DOMAIN DG_PARAMS
        n == Cardinality(ids)
        Reg(u) == IF u = "DG_1" THEN 1 ELSE 2
    IN CHOOSE s \in [1 .. n -> ids] :
          /\ \A i, j \in 1 .. n : i # j => s[i] # s[j]
          /\ \A i, j \in 1 .. n : i < j =>
                \/ DG_PARAMS[s[i]].GCI < DG_PARAMS[s[j]].GCI
                \/ /\ DG_PARAMS[s[i]].GCI = DG_PARAMS[s[j]].GCI
                   /\ Reg(s[i]) < Reg(s[j])

\* One iteration of the DG loop; st = [P_residual, DG].
DGStep(st, unit_id, prev_action) ==
    LET params == DG_PARAMS[unit_id] IN
    IF st.P_residual > 0
    THEN LET wanted == Min(params.P_max, st.P_residual)
             ramped == IF HasPrev(prev_action, "DG", unit_id)
                       THEN Clip(wanted,
                                 prev_action.DG[unit_id] - params.R_ramp,
                                 prev_action.DG[unit_id] + params.R_ramp)
                       ELSE wanted
             P_dispatch == Clip(ramped, params.P_min, params.P_max)
         IN [P_residual |-> st.P_residual - P_dispatch,
             DG |-> (unit_id :> P_dispatch) @@ st.DG]
    ELSE [P_residual |-> st.P_residual,
          DG |-> (unit_id :> params.P_min) @@ st.DG]

RECURSIVE DGLoop(_, _, _)
DGLoop(st, units, prev_action) ==
    IF units = <<>> THEN st
    ELSE DGLoop(DGStep(st, Head(units), prev_action), Tail(units), prev_action)

\* CHP dispatch for CHP_1: heat-led, electrical midpoint of the coupled
\* interval, box clip, then ramp clip; rs = [P_residual, H_residual].
CHPStage(rs, prev_action) ==
    LET unit_id == "CHP_1"
        params == CHP_PARAMS[unit_id]
        H_dispatch == Max(params.H_min, Min(params.H_max, rs.H_residual))
        P_min_coupled == (params.c_m * H_dispatch) \div 10 + params.c_k
        P_max_coupled == params.P_max - (params.c_v * H_dispatch) \div 10
        mid == (P_min_coupled + P_max_coupled) \div 2
        boxed == Clip(mid, params.P_min, params.P_max)
        P_dispatch == IF HasPrev(prev_action, "CHP", unit_id)
                      THEN Clip(boxed,
                                prev_action.CHP[unit_id].P - params.R_ramp,
                                prev_action.CHP[unit_id].P + params.R_ramp)
                      ELSE boxed
    IN [CHP |-> [CHP_1 |-> [P |-> P_dispatch, H |-> H_dispatch]],
        H_residual |-> rs.H_residual - H_dispatch,
        P_residual |-> rs.P_residual - P_dispatch]

\* EBStage taking the thermal output as the electrical input (the division
\* by eta left out).
EBStageNoEfficiency(rs) ==
    LET params == EB_PARAMS["EB_1"] IN
    IF rs.H_residual > 0
    THEN LET H_dispatch == Min(params.H_max, rs.H_residual)
             P_dispatch == Clip(H_dispatch, params.P_min, params.P_max)
         IN [EB |-> [EB_1 |-> P_dispatch],
             H_residual |-> rs.H_residual - H_dispatch,
             P_residual |-> rs.P_residual + P_dispatch]
    ELSE [EB |-> [EB_1 |-> 0],
          H_residual |-> rs.H_residual,
          P_residual |-> rs.P_residual]

\* Electric boiler EB_1 for the remaining thermal demand.
EBStage(rs) ==
    LET params == EB_PARAMS["EB_1"] IN
    IF rs.H_residual > 0
    THEN LET H_dispatch == Min(params.H_max, rs.H_residual)
             P_dispatch == Clip((100 * H_dispatch) \div params.eta,
                                params.P_min, params.P_max)
         IN [EB |-> [EB_1 |-> P_dispatch],
             H_residual |-> rs.H_residual - H_dispatch,
             P_residual |-> rs.P_residual + P_dispatch]
    ELSE [EB |-> [EB_1 |-> 0],
          H_residual |-> rs.H_residual,
          P_residual |-> rs.P_residual]

\* H_required of one TCL as the numerator n of n / (10^4 * beta), clipped to
\* [H_min, H_max]: T_target = (T_min + T_max) / 2.
TCLDispatch(unit_id, T_current, T_outdoor) ==
    LET params == TCL_PARAMS[unit_id]
        T_target == (params.T_min + params.T_max) \div 2
        n == 10000 * T_target - params.alpha * T_current
                - params.gamma * T_outdoor
    IN Clip(n, params.H_min * params.beta, params.H_max * params.beta)

\* TCL adjustment; T_indoor[tcl_idx] raises IndexError on a short array.
TCLStage(obs) ==
    LET T_outdoor == Get(obs, "T_outdoor", 0)
        T_indoor == Get(obs, "T_indoor", [i \in 1 .. 7 |-> 21])
        done == {TCLUnits[i] : i \in 1 .. Min(Len(T_indoor), Len(TCLUnits))}
        Idx(u) == CHOOSE i \in 1 .. Len(TCLUnits) : TCLUnits[i] = u
    IN [ok |-> Len(T_indoor) >= Len(TCLUnits),
        TCL |-> [u \in done |-> TCLDispatch(u, T_indoor[Idx(u)], T_outdoor)]]

\* DRDispatch with the high-price branch raising the load as well as shedding
\* it (P_up not reset to 0.0).
DRDispatchBothWays(P_node_load, price) ==
    LET shift == Min((5 * P_node_load) \div 100,
                     (DR_ADJUSTABLE_RATIO * P_node_load) \div 100)
    IN IF price > 100 THEN [P_up |-> shift, P_down |-> shift]
       ELSE IF price < 50 THEN [P_up |-> shift, P_down |-> 0]
       ELSE [P_up |-> 0, P_down |-> 0]

\* Demand response of one node: P_up / P_down by price band.
DRDispatch(P_node_load, price) ==
    LET P_adjustable_max == (DR_ADJUSTABLE_RATIO * P_node_load) \div 100
        shift == Min((5 * P_node_load) \div 100, P_adjustable_max)
    IN IF price > 100 THEN [P_up |-> 0, P_down |-> shift]
       ELSE IF price < 50 THEN [P_up |-> shift, P_down |-> 0]
       ELSE [P_up |-> 0, P_down |-> 0]

\* The DR loop reads observation['electricity_price'] at every node: with
\* the key absent the first node raises KeyError.
DRStage(obs) ==
    LET n == Len(obs.P_load)
        ok == n = 0 \/ "electricity_price" \in DOMAIN obs
    IN [ok |-> ok,
        DR |-> IF ok
               THEN [i \in 0 .. n - 1 |->
                        DRDispatch(obs.P_load[i + 1], obs.electricity_price)]
               ELSE EmptyDict]

\* GridStage clipping to [-P_max, P_max]: a surplus is exported.
GridStageExports(P_load_total, P_ren_total, a) ==
    LET total_local_gen == P_ren_total
                           + SumOver(a.DG, DOMAIN a.DG)
                           + a.CHP.CHP_1.P
                           - SumOver(a.EB, DOMAIN a.EB)
        P_grid_needed == P_load_total - total_local_gen
    IN [Grid |-> [P |-> Clip(P_grid_needed, 0 - GRID_PARAMS.P_max,
                             GRID_PARAMS.P_max)]]

\* Grid purchase for the remaining deficit, clipped to [0, P_max].
\* (Grid Q = P * tan(arccos 0.85) is a fixed multiple of P and is not kept.)
GridStage(P_load_total, P_ren_total, a) ==
    LET total_local_gen == P_ren_total
                           + SumOver(a.DG, DOMAIN a.DG)
                           + a.CHP.CHP_1.P
                           - SumOver(a.EB, DOMAIN a.EB)
        P_grid_needed == P_load_total - total_local_gen
    IN [Grid |-> [P |-> Clip(P_grid_needed, 0, GRID_PARAMS.P_max)]]

\* The try block, lines 29-291.
TryBody(obs) ==
    IF ~ExtractOK(obs) THEN [ok |-> FALSE, action |-> EmptyDict]
    ELSE
    LET P_load_total == SumSeq(obs.P_load)
        H_load_total == SumSeq(obs.H_load)
        prev_action == PrevAction(obs)
        ren == RenewableStage(obs)
    IN
    IF ~ren.ok THEN [ok |-> FALSE, action |-> [Renewable |-> ren.Renewable]]
    ELSE
    LET dg == DGLoop([P_residual |-> Max(0, P_load_total - ren.P_ren_total),
                      DG |-> EmptyDict],
                     dg_units_sorted, prev_action)
        chp == CHPStage([P_residual |-> dg.P_residual,
                         H_residual |-> H_load_total], prev_action)
        eb == EBStage(chp)
        a4 == [Renewable |-> ren.Renewable, DG |-> dg.DG,
               CHP |-> chp.CHP, EB |-> eb.EB]
        tcl == TCLStage(obs)
        dr == DRStage(obs)
        a6 == [TCL |-> tcl.TCL, DR |-> dr.DR] @@ a4
    IN
    IF ~tcl.ok THEN [ok |-> FALSE, action |-> [TCL |-> tcl.TCL] @@ a4]
    ELSE IF ~dr.ok THEN [ok |-> FALSE, action |-> a6]
    ELSE [ok |-> TRUE,
          action |-> GridStage(P_load_total, ren.P_ren_total, a6) @@ a6]

\* Return safe minimal action (the except branch rebinds action).
SafeMinimalAction ==
    [Renewable |-> [u \in SeqRange(RenUnits) |-> 0],
     DG |-> [DG_1 |-> 0, DG_2 |-> 0],
     CHP |-> [CHP_1 |-> [P |-> MW, H |-> 0]],
     EB |-> [EB_1 |-> 0],
     TCL |-> [u \in SeqRange(TCLUnits) |-> 0],
     DR |-> [i \in FallbackDRNodes |-> [P_up |-> 0, P_down |-> 0]],
     Grid |-> [P |-> 5 * MW]]

\* ExceptBranch filling in only the categories the try block had not stored
\* yet (action.setdefault instead of rebinding action).
ExceptBranchKeepsPartial(partial) ==
    [k \in DOMAIN SafeMinimalAction |->
        IF k \in DOMAIN partial /\ DOMAIN partial[k] # {}
        THEN partial[k] ELSE SafeMinimalAction[k]]

\* except Exception: whatever the try block had stored is discarded.
ExceptBranch(partial) == SafeMinimalAction

generate_prior_policy(obs) ==
    LET r == TryBody(obs)
    IN IF r.ok THEN r.action ELSE ExceptBranch(r.action)

\* Check all constraints (lines 267-291): the two advisory balance checks.
\* Each is TRUE when the function prints its warning.
PowerBalanceWarning(obs, a) ==
    LET total_gen == SumOver(a.Renewable, DOMAIN a.Renewable)
                     + SumOver(a.DG, DOMAIN a.DG)
                     + a.CHP.CHP_1.P
                     + a.Grid.P
                     - SumOver(a.EB, DOMAIN a.EB)
    IN RelErrExceeds(total_gen, SumSeq(obs.P_load), 1)

ThermalBalanceWarning(obs, a) ==
    LET total_heat == a.CHP.CHP_1.H
                      + (SumOver(a.EB, DOMAIN a.EB) * EB_PARAMS.EB_1.eta)
                            \div 100
    IN RelErrExceeds(total_heat, SumSeq(obs.H_load), 2)

(***************************************************************************)
(* compute_reward.  Thresholds: cost in 1e-4 $, carbon in 1e-4 ton,        *)
(* curtailment in 1e-4 MWh, squared voltage in 1e-4 p.u.^2, squared        *)
(* current and temperatures as integers, powers in 1/19000 MW.             *)
(***************************************************************************)
\* 101.75 * 1.05 = 106.8375
CARBON_THRESHOLD == 1068375
\* 13327.71 * 1.05 = 13994.0955
COST_THRESHOLD == 139940955
\* 1.50 * 1.2 = 1.8
RENEWABLE_CURTAILMENT_THRESHOLD == 18000
\* 0.01 and 0.02, in percent
POWER_BALANCE_TOL == 1
THERMAL_BALANCE_TOL == 2
\* 0.95 ** 2 and 1.05 ** 2
V_MIN_SQ == 9025
V_MAX_SQ == 11025
T_SUPPLY_MIN == 60
T_SUPPLY_MAX == 90
T_RETURN_MIN == 40
T_RETURN_MAX == 60
T_INDOOR_MIN == 20
T_INDOOR_MAX == 24
I_MAX_SQ == 400
\* float('inf'): above every threshold
Inf == 2000000000

\* np.sum((arr < lo) | (arr > hi)): the number of entries outside [lo, hi]
CountOutside(arr, lo, hi) ==
    Cardinality({i \in 1 .. Len(arr) : arr[i] < lo \/ arr[i] > hi})

\* np.sum(arr > hi)
CountAbove(arr, hi) == Cardinality({i \in 1 .. Len(arr) : arr[i] > hi})

\* Box limits of the CHP units (lines 168-174)
CHPBoxViolations(unit_outputs) ==
    IF "CHP" \notin DOMAIN unit_outputs THEN 0
    ELSE LET chp == unit_outputs.CHP
             V(u) == LET P_out == Get(chp[u], "P", 0)
                         H_out == Get(chp[u], "H", 0)
                     IN (IF ~(10 * D <= P_out /\ P_out <= 55 * D)
                         THEN 1 ELSE 0)
                      + (IF ~(0 <= H_out /\ H_out <= 45 * D) THEN 1 ELSE 0)
         IN SumOver([u \in DOMAIN chp |-> V(u)], DOMAIN chp)

\* Feasible region constraint of the CHP units (lines 176-181)
CHPRegionViolations(unit_outputs) ==
    IF "CHP" \notin DOMAIN unit_outputs THEN 0
    ELSE LET chp == unit_outputs.CHP
             V(u) == LET P_out == Get(chp[u], "P", 0)
                         H_out == Get(chp[u], "H", 0)
                     IN IF ~(/\ 8 * H_out + 5 * MW <= 10 * P_out
                             /\ 10 * P_out <= 55 * MW - 6 * H_out)
                        THEN 1 ELSE 0
         IN SumOver([u \in DOMAIN chp |-> V(u)], DOMAIN chp)

\* Check CHP constraints (lines 163-181): violations added by the CHP units
CHPViolations(unit_outputs) ==
    CHPBoxViolations(unit_outputs) + CHPRegionViolations(unit_outputs)

\* DGViolations with DG_2 held to 3.5 MW: the evaluator's copy of the limit
\* drifted from the dispatcher's P_max = 4.0.
DGViolationsDiverged(unit_outputs) ==
    IF "DG" \notin DOMAIN unit_outputs THEN 0
    ELSE LET dg == unit_outputs.DG IN
         Cardinality({u \in DOMAIN dg :
            \/ u = "DG_1" /\ ~(0 <= dg[u] /\ dg[u] <= 45 * D)
            \/ u = "DG_2" /\ ~(0 <= dg[u] /\ dg[u] <= 35 * D)})

\* Check DG constraints (lines 184-193)
DGViolations(unit_outputs) ==
    IF "DG" \notin DOMAIN unit_outputs THEN 0
    ELSE LET dg == unit_outputs.DG IN
         Cardinality({u \in DOMAIN dg :
            \/ u = "DG_1" /\ ~(0 <= dg[u] /\ dg[u] <= 45 * D)
            \/ u = "DG_2" /\ ~(0 <= dg[u] /\ dg[u] <= 40 * D)})

\* Check EB constraints (lines 196-200): the EB units out of [0, 3.0]
EBViolations(unit_outputs) ==
    IF "EB" \notin DOMAIN unit_outputs THEN 0
    ELSE LET eb == unit_outputs.EB IN
         Cardinality({u \in DOMAIN eb : ~(0 <= eb[u] /\ eb[u] <= 30 * D)})

\* Lines 202-205 are indented into the body of the EB violation branch:
\* unit_constraints_satisfied and ramping_satisfied are bound only when some
\* EB unit violates its limits, and then to the values computed there.
\* unit_violations is the count after the last violating EB unit, which is
\* the final count.
EBBranch(st, unit_violations) ==
    LET bound == EBViolations(Get(st, "unit_outputs", EmptyDict)) > 0
    IN [bound |-> bound,
        unit_constraints_satisfied |-> (unit_violations = 0),
        ramping_satisfied |-> (Get(st, "ramping_violations", 0) = 0)]

\* DR constraints (lines 211-222)
DRViolations(unit_outputs) ==
    IF "DR" \notin DOMAIN unit_outputs THEN 0
    ELSE LET dr == unit_outputs.DR IN
         Cardinality({n \in DOMAIN dr :
            Get(dr[n], "P_up", 0) > 0 /\ Get(dr[n], "P_down", 0) > 0})

RECURSIVE AndChain(_)
\* Python's  a and b and ... : operands are evaluated left to right and the
\* chain stops at the first false one; reading an operand whose name is not
\* bound raises.  Each operand is [bound, value].
AndChain(ops) ==
    IF ops = <<>> THEN [raised |-> FALSE, value |-> TRUE]
    ELSE IF ~Head(ops).bound THEN [raised |-> TRUE, value |-> FALSE]
    ELSE IF ~Head(ops).value THEN [raised |-> FALSE, value |-> FALSE]
    ELSE AndChain(Tail(ops))

Bound(v) == [bound |-> TRUE, value |-> v]

\* The evaluator ignores its action argument.
compute_reward(st, act) ==
    LET total_cost == Get(st, "total_cost", Inf)
        cost_satisfied == total_cost <= COST_THRESHOLD
        carbon_emission == Get(st, "carbon_emission", Inf)
        carbon_satisfied == carbon_emission <= CARBON_THRESHOLD
        renewable_curtailment == Get(st, "renewable_curtailment", 0)
        renewable_satisfied ==
            renewable_curtailment <= RENEWABLE_CURTAILMENT_THRESHOLD
        P_gen_total == Get(st, "P_gen_total", 0)
        P_load_total == Get(st, "P_load_total", MW)
        Q_gen_total == Get(st, "Q_gen_total", 0)
        Q_load_total == Get(st, "Q_load_total", MW)
        power_balance_satisfied ==
            RelErrBelow(P_gen_total, P_load_total, POWER_BALANCE_TOL)
        reactive_balance_satisfied ==
            RelErrBelow(Q_gen_total, Q_load_total, POWER_BALANCE_TOL)
        H_gen_total == Get(st, "H_gen_total", 0)
        H_load_total == Get(st, "H_load_total", MW)
        thermal_balance_satisfied ==
            RelErrBelow(H_gen_total, H_load_total, THERMAL_BALANCE_TOL)
        voltage_sq == Get(st, "voltage_squared", <<10000>>)
        voltage_violations ==
            CountOutside(voltage_sq, V_MIN_SQ, V_MAX_SQ)
        current_sq == Get(st, "current_squared", <<0>>)
        current_violations == CountAbove(current_sq, I_MAX_SQ)
        temp_supply == Get(st, "temperature_supply", <<75>>)
        temp_supply_violations ==
            CountOutside(temp_supply, T_SUPPLY_MIN, T_SUPPLY_MAX)
        temp_return == Get(st, "temperature_return", <<50>>)
        temp_return_violations ==
            CountOutside(temp_return, T_RETURN_MIN, T_RETURN_MAX)
        temp_indoor == Get(st, "temperature_indoor", [i \in 1 .. 7 |-> 22])
        temp_indoor_violations ==
            CountOutside(temp_indoor, T_INDOOR_MIN, T_INDOOR_MAX)
        unit_outputs == Get(st, "unit_outputs", EmptyDict)
        unit_violations == CHPViolations(unit_outputs)
                           + DGViolations(unit_outputs)
                           + EBViolations(unit_outputs)
        eb == EBBranch(st, unit_violations)
        dr_satisfied == DRViolations(unit_outputs) = 0
        safety_satisfied ==
            AndChain(<<Bound(voltage_violations = 0),
                       Bound(current_violations = 0),
                       Bound(temp_supply_violations = 0),
                       Bound(temp_return_violations = 0),
                       Bound(temp_indoor_violations = 0),
                       [bound |-> eb.bound,
                        value |-> eb.unit_constraints_satisfied],
                       [bound |-> eb.bound, value |-> eb.ramping_satisfied],
                       Bound(dr_satisfied)>>)
        all_objectives_satisfied ==
            /\ cost_satisfied
            /\ carbon_satisfied
            /\ renewable_satisfied
            /\ power_balance_satisfied
            /\ reactive_balance_satisfied
            /\ thermal_balance_satisfied
            /\ safety_satisfied.value
    IN IF safety_satisfied.raised
       THEN \* except Exception: return 0.0, {'error': str(e)}
            [reward |-> 0,
             diagnostics |->
                [error |-> "unit_constraints_satisfied referenced before assignment"]]
       ELSE [reward |-> IF all_objectives_satisfied THEN 1 ELSE 0,
             diagnostics |->
                [cost |-> total_cost,
                 carbon |-> carbon_emission,
                 curtailment |-> renewable_curtailment,
                 \* the ratio abs(gen - load) / max(load, 1e-6), kept as
                 \* its numerator and the load under the max
                 power_imbalance |->
                    [diff |-> Abs(P_gen_total - P_load_total),
                     load |-> P_load_total],
                 thermal_imbalance |->
                    [diff |-> Abs(H_gen_total - H_load_total),
                     load |-> H_load_total],
                 voltage_violations |-> voltage_violations,
                 temperature_violations |->
                    temp_supply_violations + temp_return_violations
                        + temp_indoor_violations,
                 unit_violations |-> unit_violations,
                 all_satisfied |-> all_objectives_satisfied]]

(***************************************************************************)
(* The caller of generate_prior_policy: a simulation loop that calls it    *)
(* once per step and threads the returned action back as previous_action.  *)
(***************************************************************************)
\* longest episode (number of threaded calls) explored
MaxCalls == 4

PLoads == {<<0, 0>>, <<30 * D, 0>>, <<30 * D, 30 * D>>, <<60 * D, 60 * D>>}
HLoads == {<<0>>, <<20 * D, 10 * D>>, <<45 * D>>, <<45 * D, 5 * D>>,
           <<50 * D, 30 * D>>}
Forecasts == {<<10 * D, 0, 0, 0>>, <<30 * D, 30 * D, 30 * D, 0 - 10 * D>>}
Prices == {40, 75}
Temps == {[indoor |-> [i \in 1 .. 7 |-> 0 - 5], outdoor |-> 0 - 10],
          [indoor |-> [i \in 1 .. 7 |-> 30], outdoor |-> 35]}

Drop(d, k) == [x \in DOMAIN d \ {k} |-> d[x]]

\* The scenario of the specification: load 6.0 MW, thermal load 3.0 MW,
\* zero renewable forecast, price 120; temperatures left to their defaults.
BaseObservation ==
    [P_load |-> <<30 * D, 30 * D>>,
     H_load |-> <<20 * D, 10 * D>>,
     P_ren_forecast |-> <<0, 0, 0, 0>>,
     electricity_price |-> 120,
     unit_info |-> EmptyDict]

\* Well-formed observations: every electrical / thermal load pair without
\* renewables, every forecast at every electrical load, and every price and
\* temperature at the base loads.
WellFormed ==
    {[BaseObservation EXCEPT !.P_load = pl, !.H_load = hl] :
        pl \in PLoads, hl \in HLoads}
    \cup {[BaseObservation EXCEPT !.P_load = pl, !.P_ren_forecast = fc] :
             pl \in PLoads, fc \in Forecasts}
    \cup {[BaseObservation EXCEPT !.electricity_price = p] : p \in Prices}
    \cup {("T_indoor" :> t.indoor) @@ ("T_outdoor" :> t.outdoor)
             @@ BaseObservation : t \in Temps}

\* Observations on which a stage of the try block raises.
Malformed ==
    {Drop(BaseObservation, k) :
        k \in {"unit_info", "P_load", "electricity_price"}}
    \cup {[BaseObservation EXCEPT !.P_ren_forecast = <<10 * D, 10 * D>>],
          ("T_indoor" :> <<21, 21, 21>>) @@ BaseObservation}

Observations == WellFormed \cup Malformed

Init ==
    /\ observation = EmptyDict
    /\ action = EmptyDict
    /\ calls = 0
    /\ state = EmptyDict
    /\ result = EmptyDict

\* First call of an episode: no previous_action in the observation.
FirstCall(o) ==
    /\ calls = 0
    /\ observation' = o
    /\ action' = generate_prior_policy(o)
    /\ calls' = 1
    /\ UNCHANGED <<state, result>>

\* Later calls: the caller supplies the action returned by the call before.
NextCall(o) ==
    /\ calls > 0
    /\ calls < MaxCalls
    /\ observation' = ("previous_action" :> action) @@ o
    /\ action' = generate_prior_policy(observation')
    /\ calls' = calls + 1
    /\ UNCHANGED <<state, result>>

Next ==
    \/ \E o \in Observations : FirstCall(o)
    \/ \E o \in Observations : NextCall(o)

Spec == Init /\ [][Next]_vars

(***************************************************************************)
(* Properties of generate_prior_policy over threaded call sequences.       *)
(***************************************************************************)
\* the last call ran its try block to the end
NormalPath == calls > 0 /\ TryBody(observation).ok

\* Every set point of a lies in the box of its unit.
InBox(a) ==
    /\ \A u \in DOMAIN a.Renewable :
          0 <= a.Renewable[u] /\ a.Renewable[u] <= REN_PARAMS[u].P_max
    /\ \A u \in DOMAIN a.DG :
          DG_PARAMS[u].P_min <= a.DG[u] /\ a.DG[u] <= DG_PARAMS[u].P_max
    /\ 10 * D <= a.CHP.CHP_1.P /\ a.CHP.CHP_1.P <= 55 * D
    /\ 0 <= a.CHP.CHP_1.H /\ a.CHP.CHP_1.H <= 45 * D
    /\ 0 <= a.EB.EB_1 /\ a.EB.EB_1 <= 30 * D
    /\ \A u \in DOMAIN a.TCL :
          /\ TCL_PARAMS[u].H_min * TCL_PARAMS[u].beta <= a.TCL[u]
          /\ a.TCL[u] <= TCL_PARAMS[u].H_max * TCL_PARAMS[u].beta
    /\ 0 <= a.Grid.P /\ a.Grid.P <= 36 * D

\* C2: over a threaded call sequence (previous_action absent on the first
\* call, the previous return afterwards) every returned set point lies in
\* its unit's box, Grid P in [0, grid capacity] included.
C2_SetPointsInBox == calls > 0 => InBox(action)

\* The box property restricted to returns of the normal path (the part of
\* C2 the code does satisfy).
NormalPathInBox == NormalPath => InBox(action)

\* C3: when previous_action holds a DG or CHP unit and the dispatch stages
\* run, the unit's returned electrical set point differs from the previous
\* one by at most its ramp rate, also when the residual demand is exhausted.
C3_RampRespected ==
    NormalPath =>
        LET prev_action == PrevAction(observation) IN
        /\ \A u \in DOMAIN DG_PARAMS :
              HasPrev(prev_action, "DG", u) =>
                 Abs(action.DG[u] - prev_action.DG[u]) <= DG_PARAMS[u].R_ramp
        /\ HasPrev(prev_action, "CHP", "CHP_1") =>
              Abs(action.CHP.CHP_1.P - prev_action.CHP.CHP_1.P)
                 <= CHP_PARAMS.CHP_1.R_ramp

\* C4: every returned CHP pair satisfies
\* 0.8*H + 0.5 <= P <= 5.5 - 0.6*H (both sides times 10).
C4_CHPFeasibleRegion ==
    calls > 0 =>
        LET P == action.CHP.CHP_1.P
            H == action.CHP.CHP_1.H
        IN /\ 8 * H + 5 * MW <= 10 * P
           /\ 10 * P <= 55 * MW - 6 * H

\* C5: no DR entry of a returned action (normal path or fallback) has both
\* P_up > 0 and P_down > 0.
C5_NoSimultaneousDR ==
    calls > 0 =>
        \A n \in DOMAIN action.DR :
            ~(action.DR[n].P_up > 0 /\ action.DR[n].P_down > 0)

\* C5 witness: a high-price call that sheds load at some node.
C5_Witness ==
    /\ NormalPath
    /\ observation.electricity_price > 100
    /\ \E n \in DOMAIN action.DR : action.DR[n].P_down > 0

\* The observation shapes on which the claim C6 expects the fallback: a
\* required key absent, or an array too short for the stage that indexes it.
Raises(obs) ==
    \/ \E k \in {"P_load", "H_load", "P_ren_forecast", "unit_info"} :
          k \notin DOMAIN obs
    \/ Len(obs.P_ren_forecast) < 4
    \/ "T_indoor" \in DOMAIN obs /\ Len(obs.T_indoor) < 7
    \/ "electricity_price" \notin DOMAIN obs /\ Len(obs.P_load) > 0

\* C6: when a required key is missing or a stage fails midway, the call
\* returns exactly the safe minimal action: renewables 0, DG 0, CHP_1 at
\* P = 1.0 / H = 0.0, EB_1 0, TCL_1..TCL_7 0, 33 DR entries 0/0, Grid P = 5.0.
C6_FallbackIsSafeMinimal ==
    (calls > 0 /\ Raises(observation)) =>
        /\ DOMAIN action =
              {"Renewable", "DG", "CHP", "EB", "TCL", "DR", "Grid"}
        /\ action.Renewable = [u \in {"WT_1", "WT_2", "PV_1", "PV_2"} |-> 0]
        /\ action.DG = [u \in {"DG_1", "DG_2"} |-> 0]
        /\ action.CHP = [u \in {"CHP_1"} |-> [P |-> MW, H |-> 0]]
        /\ action.EB = [u \in {"EB_1"} |-> 0]
        /\ action.TCL = [u \in SeqRange(TCLUnits) |-> 0]
        /\ DOMAIN action.DR = 0 .. 32
        /\ \A n \in 0 .. 32 : action.DR[n] = [P_up |-> 0, P_down |-> 0]
        /\ action.Grid.P = 5 * MW

\* C6 witness: the TCL stage raised after the dispatch stages had stored
\* their set points, following a call that had dispatched DG_2.
C6_Witness ==
    /\ calls > 1
    /\ "T_indoor" \in DOMAIN observation
    /\ Len(observation.T_indoor) < 7
    /\ observation.previous_action.DG.DG_2 > 0
    /\ action.DG.DG_2 = 0

\* C9: on the normal path the returned action balances: electrical supply
\* within 1% of the total load and heat within 2% of the thermal load.
C9_BalanceHolds ==
    NormalPath =>
        /\ ~PowerBalanceWarning(observation, action)
        /\ ~ThermalBalanceWarning(observation, action)

(***************************************************************************)
(* The caller of compute_reward: the simulator hands over one SystemState  *)
(* and the evaluator is applied to it.  A state is built field by field:   *)
(* each field holds a value inside its limit, or (for the fields in bad) a *)
(* value just past its limit, or (for the fields in absent) is left out so *)
(* that the evaluator's default applies.                                   *)
(***************************************************************************)
\* most fields of one state that are past their limit
MaxViolations == 2

ScalarFields ==
    {"total_cost", "carbon_emission", "renewable_curtailment", "P", "Q", "H",
     "voltage_squared", "current_squared", "temperature_supply",
     "temperature_return", "temperature_indoor", "ramping_violations"}
UnitFields == {"CHP", "DG", "EB", "DR"}
\* CHP_region: CHP inside its box but outside its coupled feasible region
Fields == ScalarFields \cup UnitFields \cup {"CHP_region"}
Absentable == {"total_cost"} \cup UnitFields

GoodPart(f) ==
    CASE f = "total_cost" -> [total_cost |-> 100000000]
      [] f = "carbon_emission" -> [carbon_emission |-> 900000]
      [] f = "renewable_curtailment" -> [renewable_curtailment |-> 5000]
      [] f = "P" -> [P_gen_total |-> 60 * D, P_load_total |-> 60 * D]
      [] f = "Q" -> [Q_gen_total |-> 20 * D, Q_load_total |-> 20 * D]
      [] f = "H" -> [H_gen_total |-> 30 * D, H_load_total |-> 30 * D]
      [] f = "voltage_squared" -> [voltage_squared |-> <<10000, 9025>>]
      [] f = "current_squared" -> [current_squared |-> <<100, 400>>]
      [] f = "temperature_supply" -> [temperature_supply |-> <<60, 90>>]
      [] f = "temperature_return" -> [temperature_return |-> <<40, 60>>]
      [] f = "temperature_indoor" ->
            [temperature_indoor |-> [i \in 1 .. 7 |-> 22]]
      [] f = "ramping_violations" -> [ramping_violations |-> 0]
      [] f = "CHP" -> [CHP |-> [CHP_1 |-> [P |-> 33 * D, H |-> 30 * D]]]
      [] f = "DG" -> [DG |-> [DG_1 |-> 20 * D, DG_2 |-> 40 * D]]
      [] f = "EB" -> [EB |-> [EB_1 |-> 30 * D]]
      [] f = "DR" -> [DR |-> [n \in 0 .. 1 |-> [P_up |-> 0, P_down |-> 95]]]

\* each value one step of its fixed point past the limit
BadPart(f) ==
    CASE f = "total_cost" -> [total_cost |-> COST_THRESHOLD + 1]
      [] f = "carbon_emission" -> [carbon_emission |-> CARBON_THRESHOLD + 1]
      [] f = "renewable_curtailment" ->
            [renewable_curtailment |-> RENEWABLE_CURTAILMENT_THRESHOLD + 1]
      [] f = "P" -> [P_gen_total |-> 60 * D + (60 * D) \div 100,
                     P_load_total |-> 60 * D]
      [] f = "Q" -> [Q_gen_total |-> 20 * D - (20 * D) \div 100,
                     Q_load_total |-> 20 * D]
      [] f = "H" -> [H_gen_total |-> 30 * D + (2 * 30 * D) \div 100,
                     H_load_total |-> 30 * D]
      [] f = "voltage_squared" -> [voltage_squared |-> <<10000, 9024>>]
      [] f = "current_squared" -> [current_squared |-> <<100, 401>>]
      [] f = "temperature_supply" -> [temperature_supply |-> <<59, 90>>]
      [] f = "temperature_return" -> [temperature_return |-> <<40, 61>>]
      [] f = "temperature_indoor" ->
            [temperature_indoor |-> [i \in 1 .. 7 |-> IF i = 3 THEN 25 ELSE 22]]
      [] f = "ramping_violations" -> [ramping_violations |-> 1]
      [] f = "CHP" -> [CHP |-> [CHP_1 |-> [P |-> 33 * D, H |-> 45 * D + 1]]]
      [] f = "DG" -> [DG |-> [DG_1 |-> 45 * D + 1, DG_2 |-> 40 * D]]
      [] f = "EB" -> [EB |-> [EB_1 |-> 30 * D + 1]]
      [] f = "DR" -> [DR |-> [n \in 0 .. 1 |->
                                 [P_up |-> IF n = 1 THEN 95 ELSE 0,
                                  P_down |-> 95]]]

\* CHP at P = 1.0, H = 3.0: inside both boxes, below 0.8*H + 0.5
RegionBadCHP == [CHP |-> [CHP_1 |-> [P |-> 10 * D, H |-> 30 * D]]]

Part(f, bad, absent) ==
    IF f \in absent THEN EmptyDict
    ELSE IF f \in bad THEN BadPart(f)
    ELSE IF f = "CHP" /\ "CHP_region" \in bad THEN RegionBadCHP
    ELSE GoodPart(f)

RECURSIVE Join(_, _, _)
Join(fs, bad, absent) ==
    IF fs = {} THEN EmptyDict
    ELSE LET f == CHOOSE x \in fs : TRUE
         IN Part(f, bad, absent) @@ Join(fs \ {f}, bad, absent)

\* unit_outputs is left out altogether when no unit category is present
BuildState(bad, absent) ==
    LET units == Join(UnitFields, bad, absent)
    IN Join(ScalarFields, bad, absent)
       @@ (IF DOMAIN units = {} THEN EmptyDict ELSE [unit_outputs |-> units])

\* the built states and the state {} with every field at its default
SystemStates ==
    {BuildState(bad, absent) :
        bad \in {b \in SUBSET Fields :
                    /\ Cardinality(b) <= MaxViolations
                    /\ ~({"CHP", "CHP_region"} \subseteq b)},
        absent \in SUBSET Absentable}
    \cup {EmptyDict}

NotEvaluated == [reward |-> 0 - 1, diagnostics |-> EmptyDict]

RewardInit ==
    /\ observation = EmptyDict
    /\ action = EmptyDict
    /\ calls = 0
    /\ state \in SystemStates
    /\ result = NotEvaluated

Evaluate ==
    /\ result = NotEvaluated
    /\ result' = compute_reward(state, action)
    /\ UNCHANGED <<observation, action, calls, state>>

RewardNext == Evaluate

RewardSpec == RewardInit /\ [][RewardNext]_vars

Evaluated == result # NotEvaluated /\ result # EmptyDict

(***************************************************************************)
(* Properties of compute_reward.                                           *)
(***************************************************************************)
InBand(arr, lo, hi) == \A i \in 1 .. Len(arr) : lo <= arr[i] /\ arr[i] <= hi

\* The predicates of the evaluator's contract that a state violates, each
\* read off the state itself (absent fields at their documented defaults).
ViolatedPredicates(st) ==
    LET uo == Get(st, "unit_outputs", EmptyDict) IN
    {p \in {"cost", "carbon", "curtailment", "power", "reactive", "thermal",
            "voltage", "current", "temperature_supply", "temperature_return",
            "temperature_indoor", "unit", "ramping", "dr"} :
        CASE p = "cost" -> Get(st, "total_cost", Inf) > COST_THRESHOLD
          [] p = "carbon" -> Get(st, "carbon_emission", Inf) > CARBON_THRESHOLD
          [] p = "curtailment" ->
                Get(st, "renewable_curtailment", 0)
                    > RENEWABLE_CURTAILMENT_THRESHOLD
          [] p = "power" ->
                ~RelErrBelow(Get(st, "P_gen_total", 0),
                             Get(st, "P_load_total", MW), 1)
          [] p = "reactive" ->
                ~RelErrBelow(Get(st, "Q_gen_total", 0),
                             Get(st, "Q_load_total", MW), 1)
          [] p = "thermal" ->
                ~RelErrBelow(Get(st, "H_gen_total", 0),
                             Get(st, "H_load_total", MW), 2)
          [] p = "voltage" ->
                ~InBand(Get(st, "voltage_squared", <<10000>>), 9025, 11025)
          [] p = "current" ->
                ~InBand(Get(st, "current_squared", <<0>>), 0, 400)
          [] p = "temperature_supply" ->
                ~InBand(Get(st, "temperature_supply", <<75>>), 60, 90)
          [] p = "temperature_return" ->
                ~InBand(Get(st, "temperature_return", <<50>>), 40, 60)
          [] p = "temperature_indoor" ->
                ~InBand(Get(st, "temperature_indoor", <<22>>), 20, 24)
          [] p = "unit" ->
                CHPViolations(uo) + DGViolations(uo) + EBViolations(uo) > 0
          [] p = "ramping" -> Get(st, "ramping_violations", 0) # 0
          [] p = "dr" -> DRViolations(uo) > 0}

\* The metric of the diagnostics record under which a predicate is reported
\* (reactive balance, current, ramping and DR have none).
DiagKey(p) ==
    CASE p = "cost" -> "cost"
      [] p = "carbon" -> "carbon"
      [] p = "curtailment" -> "curtailment"
      [] p = "power" -> "power_imbalance"
      [] p = "thermal" -> "thermal_imbalance"
      [] p = "voltage" -> "voltage_violations"
      [] p \in {"temperature_supply", "temperature_return",
                "temperature_indoor"} -> "temperature_violations"
      [] p = "unit" -> "unit_violations"
      [] OTHER -> "none"

\* The metrics of a diagnostics record d that show a violation.
ReportedViolations(d) ==
    {k \in DOMAIN d :
        CASE k = "cost" -> d[k] > COST_THRESHOLD
          [] k = "carbon" -> d[k] > CARBON_THRESHOLD
          [] k = "curtailment" -> d[k] > RENEWABLE_CURTAILMENT_THRESHOLD
          [] k = "power_imbalance" ->
                ~RelErrBelow(d[k].diff + d[k].load, d[k].load, 1)
          [] k = "thermal_imbalance" ->
                ~RelErrBelow(d[k].diff + d[k].load, d[k].load, 2)
          [] k \in {"voltage_violations", "temperature_violations",
                    "unit_violations"} -> d[k] > 0
          [] OTHER -> FALSE}

\* C1: the reward is 1.0 if and only if every predicate holds; in
\* particular a state in which all predicates hold yields 1.0.
C1_RewardIffAllPredicatesHold ==
    Evaluated => (result.reward = 1 <=> ViolatedPredicates(state) = {})

\* What the code does instead: no state at all is rewarded 1.0.
RewardIsAlwaysZero == Evaluated => result.reward = 0

\* C7: on every well-formed state compute_reward finishes on the success
\* path: the diagnostics are the computed metrics, not the error record.
C7_SuccessPath ==
    Evaluated =>
        /\ "error" \notin DOMAIN result.diagnostics
        /\ "all_satisfied" \in DOMAIN result.diagnostics

\* C8: when exactly one predicate is violated (one that has a metric in the
\* diagnostics, such as total_cost just above its threshold) the reward is
\* 0.0 and the diagnostics report that predicate's violation and no other.
C8_SingleViolationReported ==
    (/\ Evaluated
     /\ Cardinality(ViolatedPredicates(state)) = 1
     /\ \A p \in ViolatedPredicates(state) : DiagKey(p) # "none")
    => /\ result.reward = 0
       /\ ReportedViolations(result.diagnostics)
             = {DiagKey(p) : p \in ViolatedPredicates(state)}

(***************************************************************************)
(* Behaviour of the dispatch stages, read off the observation and the      *)
(* returned action of a call.                                              *)
(***************************************************************************)
\* residual electrical demand left by the renewables of the returned action
ResidualAfterRenewables ==
    Max(0, SumSeq(observation.P_load)
              - SumOver(action.Renewable, DOMAIN action.Renewable))

\* C11: DG units are dispatched in ascending carbon intensity (DG_2 before
\* DG_1).  Without previous_action each unit reached with residual > 0 gets
\* min(P_max, residual), so DG_1 exceeds its P_min only if DG_2 is at its
\* P_max; on every call a unit reached with residual <= 0 gets its P_min.
C11_MeritOrder ==
    NormalPath =>
        LET r2 == ResidualAfterRenewables
            r1 == r2 - action.DG.DG_2
        IN /\ r2 <= 0 => action.DG.DG_2 = DG_PARAMS.DG_2.P_min
           /\ r1 <= 0 => action.DG.DG_1 = DG_PARAMS.DG_1.P_min
           /\ calls = 1 =>
                 /\ r2 > 0 => action.DG.DG_2 = Min(40 * D, r2)
                 /\ r1 > 0 => action.DG.DG_1 = Min(45 * D, r1)
                 /\ action.DG.DG_1 > DG_PARAMS.DG_1.P_min
                       => action.DG.DG_2 = DG_PARAMS.DG_2.P_max

\* C11 witness: a first call whose load fills DG_2 and spills into DG_1.
C11_Witness ==
    /\ NormalPath
    /\ calls = 1
    /\ action.DG.DG_2 = 40 * D
    /\ action.DG.DG_1 > 0
    /\ action.DG.DG_1 < 45 * D

\* thermal demand left after the CHP heat of the returned action
ThermalAfterCHP == SumSeq(observation.H_load) - action.CHP.CHP_1.H

\* electrical deficit left to the grid: total load minus renewable, DG and
\* CHP output, plus the boiler draw
GridDeficit ==
    SumSeq(observation.P_load)
    - (SumOver(action.Renewable, DOMAIN action.Renewable)
       + SumOver(action.DG, DOMAIN action.DG)
       + action.CHP.CHP_1.P
       - action.EB.EB_1)

\* C12: the boiler set point is 0 when the thermal demand left after the CHP
\* heat is <= 0, otherwise min(H_max, remaining) / eta clipped to
\* [P_min, P_max]; it is never negative, and its draw is part of the
\* deficit the grid stage covers.
C12_ElectricBoiler ==
    NormalPath =>
        LET rem == ThermalAfterCHP
            eb == action.EB.EB_1
        IN /\ rem <= 0 => eb = 0
           /\ rem > 0 => eb = Clip((100 * Min(25 * D, rem)) \div 95, 0, 30 * D)
           /\ eb >= 0
           /\ action.Grid.P = Clip(GridDeficit, 0, 36 * D)

\* C12 witness: the boiler covers a remainder below its H_max and its draw
\* shows in a grid import inside the capacity.
C12_Witness ==
    /\ NormalPath
    /\ ThermalAfterCHP > 0
    /\ ThermalAfterCHP < 25 * D
    /\ action.EB.EB_1 > ThermalAfterCHP
    /\ action.Grid.P > 0
    /\ action.Grid.P < 36 * D
    /\ action.Grid.P - action.EB.EB_1 < 0

\* C13: Grid P is the deficit (load minus renewable + DG + CHP P - EB draw)
\* clipped to [0, capacity]: 0 when local net generation meets or exceeds
\* the load, never above 0.15 * 24.0 = 3.6 MW, and equal to the deficit
\* inside that range.
C13_GridPurchase ==
    NormalPath =>
        /\ GridDeficit <= 0 => action.Grid.P = 0
        /\ action.Grid.P <= 68400
        /\ (GridDeficit >= 0 /\ GridDeficit <= 68400)
              => action.Grid.P = GridDeficit
        /\ GridDeficit > 68400 => action.Grid.P = 68400
        /\ GRID_PARAMS.P_max = 68400

\* C13 witness: the deficit exceeds the capacity and the import is held at
\* the capacity (the DG units are still ramping up after a fallback).
C13_Witness ==
    /\ NormalPath
    /\ GridDeficit > GRID_PARAMS.P_max
    /\ action.Grid.P = GRID_PARAMS.P_max

\* C14: the DG, CHP and EB set points of every returned action, passed as
\* state['unit_outputs'], pass the evaluator's box-limit checks (CHP P in
\* [1.0, 5.5], CHP H in [0, 4.5], DG_1 in [0, 4.5], DG_2 in [0, 4.0],
\* EB in [0, 3.0]) with zero violations.
C14_LimitsAgree ==
    calls > 0 =>
        LET unit_outputs == [CHP |-> action.CHP, DG |-> action.DG,
                             EB |-> action.EB]
        IN CHPBoxViolations(unit_outputs) + DGViolations(unit_outputs)
              + EBViolations(unit_outputs) = 0

\* C14 witness: an action with DG_2 and the CHP heat at their upper limits
\* and the boiler running.
C14_Witness ==
    /\ NormalPath
    /\ action.DG.DG_2 = DG_PARAMS.DG_2.P_max
    /\ action.CHP.CHP_1.H = CHP_PARAMS.CHP_1.H_max
    /\ action.EB.EB_1 > 0

====
